---- MODULE Spec2Model ----
(***************************************************************************)
(* State-machine model of the landlord property service                    *)
(* (src/unnamed/part_001): the Express route table, the create, get-by-id  *)
(* and search handlers, and the relational store (tables users and         *)
(* properties) they query.  Every await of a handler is a yield point: an  *)
(* action is one query executed by the store together with the handler     *)
(* code that runs on its result up to the next await.                      *)
(***************************************************************************)
EXTENDS Integers, Sequences, FiniteSets, TLC

(***************************************************************************)
(* Values.  A string is a sequence of one-character strings, so that       *)
(* length, LOWER(), LIKE and parseInt are computed and not assumed.  An    *)
(* optional value (a request field that may be missing, a nullable column) *)
(* is <<>> when missing/NULL and <<v>> when present.  Amounts and counts   *)
(* are whole numbers.                                                      *)
(***************************************************************************)
None == <<>>
Some(v) == <<v>>
Has(x) == x # <<>>
Val(x) == x[1]

UpperLetters ==
  <<"A","B","C","D","E","F","G","H","I","J","K","L","M",
    "N","O","P","Q","R","S","T","U","V","W","X","Y","Z">>
LowerLetters ==
  <<"a","b","c","d","e","f","g","h","i","j","k","l","m",
    "n","o","p","q","r","s","t","u","v","w","x","y","z">>
Digits == <<"0","1","2","3","4","5","6","7","8","9">>

IsDigit(c) == c \in {Digits[i] : i \in 1..10}
DigitValueOf == [c \in {Digits[i] : i \in 1..10} |-> (CHOOSE i \in 1..10 : Digits[i] = c) - 1]
DigitValue(c) == DigitValueOf[c]

\* SQL LOWER() of one character and of a string.
LowerOf == [c \in {UpperLetters[i] : i \in 1..26} |->
              LowerLetters[CHOOSE i \in 1..26 : UpperLetters[i] = c]]
LowerChar(c) == IF c \in DOMAIN LowerOf THEN LowerOf[c] ELSE c
LOWER(s) == [i \in 1..Len(s) |-> LowerChar(s[i])]

\* SQL  str LIKE pat : % matches any run of characters, _ any one character.
RECURSIVE LikeMatch(_, _)
LikeMatch(s, p) ==
  IF p = <<>> THEN s = <<>>
  ELSE IF Head(p) = "%"
    THEN LikeMatch(s, Tail(p)) \/ (s # <<>> /\ LikeMatch(Tail(s), p))
    ELSE /\ s # <<>>
         /\ (Head(p) = "_" \/ Head(p) = Head(s))
         /\ LikeMatch(Tail(s), Tail(p))

\* The pattern /^\d{5}(-\d{4})?$/ of both schemas.
ZipPattern(s) ==
  \/ Len(s) = 5 /\ \A i \in 1..5 : IsDigit(s[i])
  \/ /\ Len(s) = 10
     /\ \A i \in 1..5 : IsDigit(s[i])
     /\ s[6] = "-"
     /\ \A i \in 7..10 : IsDigit(s[i])

\* Joi.string().min(lo).max(hi): '' is not a string Joi accepts.
JoiString(x, lo, hi) == Len(x) >= 1 /\ Len(x) >= lo /\ Len(x) <= hi

(***************************************************************************)
(* Request validation (Joi).  Each schema is the predicate "validate()     *)
(* returns no error".  Keys are optional unless required(); a key the      *)
(* schema does not name is an error; a rule with Joi.ref() to a key that   *)
(* is missing is an error too (the reference must resolve to a number).    *)
(***************************************************************************)
\* Joi.number().<rule>(Joi.ref(other)) on a supplied value x.
JoiGreaterRef(x, ref) == Has(ref) /\ x > Val(ref)
JoiMinRef(x, ref) == Has(ref) /\ x >= Val(ref)

createPropertySchema(b) ==
  /\ Has(b.address) /\ JoiString(Val(b.address), 5, 500)
  /\ Has(b.city) /\ JoiString(Val(b.city), 2, 100)
  /\ Has(b.state) /\ JoiString(Val(b.state), 2, 50)
  /\ Has(b.zip_code) /\ Len(Val(b.zip_code)) >= 1 /\ ZipPattern(Val(b.zip_code))
  /\ Has(b.rent_amount) => (Val(b.rent_amount) > 0 /\ Val(b.rent_amount) <= 50000)
  /\ Has(b.bedrooms) => (Val(b.bedrooms) >= 0 /\ Val(b.bedrooms) <= 20)
  /\ Has(b.bathrooms) => (Val(b.bathrooms) > 0 /\ Val(b.bathrooms) <= 20)
  /\ Has(b.square_feet) => (Val(b.square_feet) > 0 /\ Val(b.square_feet) <= 50000)
  /\ Has(b.description) => JoiString(Val(b.description), 0, 2000)
  /\ Has(b.landlord_id)
  /\ ~Has(b.landlord_verified)

SortKeys == {"rent_asc", "rent_desc", "newest", "oldest", "sqft_asc", "sqft_desc"}

\* MaxRentRule without the comparison with min_rent.
MaxRentRule_NoRef(q) ==
  Has(q.max_rent) => (Val(q.max_rent) > 0 /\ Val(q.max_rent) <= 50000)

\* The rule chain of max_rent: positive, max(50000), greater(ref min_rent).
MaxRentRule(q) ==
  Has(q.max_rent) =>
    /\ Val(q.max_rent) > 0 /\ Val(q.max_rent) <= 50000
    /\ JoiGreaterRef(Val(q.max_rent), q.min_rent)

searchPropertiesSchema(q) ==
  /\ Has(q.city) => JoiString(Val(q.city), 2, 100)
  /\ Has(q.state) => JoiString(Val(q.state), 2, 50)
  /\ Has(q.zip_code) => (Len(Val(q.zip_code)) >= 1 /\ ZipPattern(Val(q.zip_code)))
  /\ Has(q.min_rent) => (Val(q.min_rent) > 0 /\ Val(q.min_rent) <= 50000)
  /\ MaxRentRule(q)
  /\ Has(q.min_bedrooms) => (Val(q.min_bedrooms) >= 0 /\ Val(q.min_bedrooms) <= 20)
  /\ Has(q.max_bedrooms) =>
       /\ Val(q.max_bedrooms) >= 0 /\ Val(q.max_bedrooms) <= 20
       /\ JoiMinRef(Val(q.max_bedrooms), q.min_bedrooms)
  /\ Has(q.min_bathrooms) => (Val(q.min_bathrooms) > 0 /\ Val(q.min_bathrooms) <= 20)
  /\ Has(q.max_bathrooms) =>
       /\ Val(q.max_bathrooms) > 0 /\ Val(q.max_bathrooms) <= 20
       /\ JoiMinRef(Val(q.max_bathrooms), q.min_bathrooms)
  /\ Has(q.min_sqft) => (Val(q.min_sqft) > 0 /\ Val(q.min_sqft) <= 50000)
  /\ Has(q.max_sqft) =>
       /\ Val(q.max_sqft) > 0 /\ Val(q.max_sqft) <= 50000
       /\ JoiMinRef(Val(q.max_sqft), q.min_sqft)
  /\ Has(q.sort_by) => Val(q.sort_by) \in SortKeys
  /\ Has(q.limit) => (Val(q.limit) >= 1 /\ Val(q.limit) <= 100)
  /\ Has(q.offset) => Val(q.offset) >= 0

\* The validated value: limit and offset get their defaults, and the
\* handler's destructuring gives sort_by its default.
DefaultLimit == 20
DefaultOffset == 0
SearchValue(q) ==
  [q EXCEPT !.limit = IF Has(q.limit) THEN q.limit ELSE Some(DefaultLimit),
            !.offset = IF Has(q.offset) THEN q.offset ELSE Some(DefaultOffset),
            !.sort_by = IF Has(q.sort_by) THEN q.sort_by ELSE Some("newest")]

(***************************************************************************)
(* Routing.  Express tries the routes in the order they were registered    *)
(* and runs the first whose method and path match; a path is its sequence  *)
(* of segments, matched case-insensitively, and :id matches any segment.   *)
(***************************************************************************)
SegProperties == <<"p","r","o","p","e","r","t","i","e","s">>
SegStats == <<"s","t","a","t","s">>
SegHealth == <<"h","e","a","l","t","h">>
SegTest == <<"t","e","s","t">>
SegSetup == <<"s","e","t","u","p","-","d","a","t","a","b","a","s","e">>

Lit(seg) == [param |-> FALSE, lit |-> seg]
Param == [param |-> TRUE, lit |-> <<>>]

Routes ==
  << [method |-> "GET", pattern |-> <<Lit(SegHealth)>>, handler |-> "health"],
     [method |-> "GET", pattern |-> <<>>, handler |-> "root"],
     [method |-> "GET", pattern |-> <<Lit(SegTest)>>, handler |-> "test"],
     [method |-> "GET", pattern |-> <<Lit(SegSetup)>>, handler |-> "setup"],
     [method |-> "POST", pattern |-> <<Lit(SegProperties)>>, handler |-> "create"],
     [method |-> "GET", pattern |-> <<Lit(SegProperties), Param>>, handler |-> "getById"],
     [method |-> "GET", pattern |-> <<Lit(SegProperties)>>, handler |-> "search"],
     [method |-> "GET", pattern |-> <<Lit(SegProperties), Lit(SegStats)>>, handler |-> "stats"] >>

RouteMatches(route, method, path) ==
  /\ route.method = method
  /\ Len(route.pattern) = Len(path)
  /\ \A i \in 1..Len(path) :
       route.pattern[i].param \/ route.pattern[i].lit = LOWER(path[i])

Route(method, path) ==
  IF \E i \in 1..Len(Routes) : RouteMatches(Routes[i], method, path)
    THEN LET first == CHOOSE i \in 1..Len(Routes) :
                        /\ RouteMatches(Routes[i], method, path)
                        /\ \A j \in 1..(i - 1) : ~RouteMatches(Routes[j], method, path)
         IN Routes[first].handler
    ELSE "notFound"

\* parseInt(s): the longest prefix of decimal digits, NaN (None) without one.
RECURSIVE DigitsPrefix(_)
DigitsPrefix(s) ==
  IF s = <<>> \/ ~IsDigit(Head(s)) THEN <<>> ELSE <<Head(s)>> \o DigitsPrefix(Tail(s))
RECURSIVE DecimalValue(_)
DecimalValue(ds) ==
  IF ds = <<>> THEN 0 ELSE 10 * DecimalValue(SubSeq(ds, 1, Len(ds) - 1)) + DigitValue(ds[Len(ds)])
parseInt(s) ==
  IF DigitsPrefix(s) = <<>> THEN None ELSE Some(DecimalValue(DigitsPrefix(s)))

(***************************************************************************)
(* The store.  users holds the rows of the externally owned users table,   *)
(* properties the rows of the properties table of /setup-database.         *)
(***************************************************************************)
\* INSERT INTO properties (...) VALUES ($1..$10) RETURNING *: the ten
\* columns come from the validated body (a missing optional is NULL), id
\* from the SERIAL sequence, landlord_verified and created_at from their
\* column defaults.
InsertedRow_VerifiedByDefault(value, id, now) ==
  [id |-> id,
   address |-> Val(value.address),
   city |-> Val(value.city),
   state |-> Val(value.state),
   zip_code |-> Val(value.zip_code),
   rent_amount |-> value.rent_amount,
   bedrooms |-> value.bedrooms,
   bathrooms |-> value.bathrooms,
   square_feet |-> value.square_feet,
   description |-> value.description,
   landlord_id |-> Val(value.landlord_id),
   landlord_verified |-> TRUE,
   created_at |-> now]
InsertedRow(value, id, now) ==
  [id |-> id,
   address |-> Val(value.address),
   city |-> Val(value.city),
   state |-> Val(value.state),
   zip_code |-> Val(value.zip_code),
   rent_amount |-> value.rent_amount,
   bedrooms |-> value.bedrooms,
   bathrooms |-> value.bathrooms,
   square_feet |-> value.square_feet,
   description |-> value.description,
   landlord_id |-> Val(value.landlord_id),
   landlord_verified |-> FALSE,
   created_at |-> now]

\* landlord_id INTEGER REFERENCES users(id)
ForeignKeyHolds(userRows, landlord_id) == \E u \in userRows : u.id = landlord_id

\* SELECT id, role FROM users WHERE id = $1
LandlordLookup(userRows, landlord_id) == {u \in userRows : u.id = landlord_id}

\* SELECT id FROM properties WHERE LOWER(address) = LOWER($1) AND zip_code = $2
DuplicateLookup(rows, address, zip_code) ==
  {p \in rows : LOWER(p.address) = LOWER(address) /\ p.zip_code = zip_code}

\* FROM properties p JOIN users u ON p.landlord_id = u.id
JoinUsers(rows, userRows) == {p \in rows : \E u \in userRows : u.id = p.landlord_id}

(***************************************************************************)
(* The search query builder: one condition and one parameter per supplied  *)
(* filter, in the order of the handler's if statements, the placeholder    *)
(* number being the running paramCount.                                    *)
(***************************************************************************)
FilterOrder ==
  <<"city", "state", "zip_code", "min_rent", "max_rent", "min_bedrooms",
    "max_bedrooms", "min_bathrooms", "max_bathrooms", "min_sqft", "max_sqft",
    "landlord_verified">>

\* if (city) ... : a string filter is applied when truthy, the others when
\* !== undefined.
FilterSupplied(v, f) ==
  IF f \in {"city", "state", "zip_code"} THEN Has(v[f]) /\ Val(v[f]) # <<>> ELSE Has(v[f])

FilterColumn(f) ==
  CASE f = "city" -> "city"
    [] f = "state" -> "state"
    [] f = "zip_code" -> "zip_code"
    [] f \in {"min_rent", "max_rent"} -> "rent_amount"
    [] f \in {"min_bedrooms", "max_bedrooms"} -> "bedrooms"
    [] f \in {"min_bathrooms", "max_bathrooms"} -> "bathrooms"
    [] f \in {"min_sqft", "max_sqft"} -> "square_feet"
    [] f = "landlord_verified" -> "landlord_verified"

FilterOperator(f) ==
  CASE f = "city" -> "lower_like"
    [] f = "state" -> "lower_eq"
    [] f \in {"zip_code", "landlord_verified"} -> "eq"
    [] f \in {"min_rent", "min_bedrooms", "min_bathrooms", "min_sqft"} -> ">="
    [] f \in {"max_rent", "max_bedrooms", "max_bathrooms", "max_sqft"} -> "<="

FilterParam(v, f) ==
  IF f = "city" THEN <<"%">> \o Val(v[f]) \o <<"%">> ELSE Val(v[f])

SuppliedFilters(v) == SelectSeq(FilterOrder, LAMBDA f : FilterSupplied(v, f))

whereConditions(v) ==
  [i \in 1..Len(SuppliedFilters(v)) |->
     [column |-> FilterColumn(SuppliedFilters(v)[i]),
      op |-> FilterOperator(SuppliedFilters(v)[i]),
      placeholder |-> i]]

\* paramCount++ twice after the filters: the numbers of the LIMIT and the
\* OFFSET placeholder.
limitParam(v) == Len(SuppliedFilters(v)) + 1
offsetParam(v) == Len(SuppliedFilters(v)) + 2

\* queryParams with offset pushed before limit.
queryParams_OffsetFirst(v) ==
  [i \in 1..Len(SuppliedFilters(v)) |-> FilterParam(v, SuppliedFilters(v)[i])]
    \o <<Val(v.offset), Val(v.limit)>>

\* The filter parameters followed by limit and offset.
queryParams(v) ==
  [i \in 1..Len(SuppliedFilters(v)) |-> FilterParam(v, SuppliedFilters(v)[i])]
    \o <<Val(v.limit), Val(v.offset)>>

\* queryParams.slice(0, -2)
SliceOffLastTwo(params) == SubSeq(params, 1, Len(params) - 2)

\* One condition of the WHERE clause on one row; a comparison with a NULL
\* column is not true.
ConditionHolds(row, cond, params) ==
  LET arg == params[cond.placeholder]
      col == row[cond.column]
  IN CASE cond.op = "lower_like" -> LikeMatch(LOWER(col), LOWER(arg))
       [] cond.op = "lower_eq" -> LOWER(col) = LOWER(arg)
       [] cond.op = "eq" -> col = arg
       [] cond.op = ">=" -> Has(col) /\ Val(col) >= arg
       [] cond.op = "<=" -> Has(col) /\ Val(col) <= arg

WhereClause(row, conds, params) ==
  \A i \in 1..Len(conds) : ConditionHolds(row, conds[i], params)

\* The rows the FROM/JOIN/WHERE of both queries select.
MatchingRows(rows, userRows, conds, params) ==
  {p \in JoinUsers(rows, userRows) : WhereClause(p, conds, params)}

\* switch (sort_by): the ORDER BY clause.
orderClause(sort_by) ==
  CASE sort_by = "rent_asc" -> [column |-> "rent_amount", asc |-> TRUE, nullable |-> TRUE]
    [] sort_by = "rent_desc" -> [column |-> "rent_amount", asc |-> FALSE, nullable |-> TRUE]
    [] sort_by = "oldest" -> [column |-> "created_at", asc |-> TRUE, nullable |-> FALSE]
    [] sort_by = "sqft_asc" -> [column |-> "square_feet", asc |-> TRUE, nullable |-> TRUE]
    [] sort_by = "sqft_desc" -> [column |-> "square_feet", asc |-> FALSE, nullable |-> TRUE]
    [] OTHER -> [column |-> "created_at", asc |-> FALSE, nullable |-> FALSE]

\* RowBefore without NULLS LAST: the store's default puts NULL first in a
\* descending order.
RowBefore_DefaultNulls(a, b, order) ==
  LET x == a[order.column]
      y == b[order.column]
  IN IF order.nullable
       THEN IF order.asc
              THEN \/ Has(x) /\ ~Has(y)
                   \/ Has(x) /\ Has(y) /\ Val(x) < Val(y)
              ELSE \/ ~Has(x) /\ Has(y)
                   \/ Has(x) /\ Has(y) /\ Val(x) > Val(y)
       ELSE IF order.asc THEN x < y ELSE x > y

\* a must come before b under the ORDER BY (NULLS LAST on the nullable
\* columns); rows that tie may come in either order.
RowBefore(a, b, order) ==
  LET x == a[order.column]
      y == b[order.column]
  IN IF order.nullable
       THEN \/ Has(x) /\ ~Has(y)
            \/ Has(x) /\ Has(y) /\ (IF order.asc THEN Val(x) < Val(y) ELSE Val(x) > Val(y))
       ELSE IF order.asc THEN x < y ELSE x > y

\* Every order in which the store may return the set S under the ORDER BY.
Orderings(S, order) ==
  {f \in [1..Cardinality(S) -> S] :
     /\ \A i, j \in 1..Cardinality(S) : i # j => f[i] # f[j]
     /\ \A i, j \in 1..Cardinality(S) : i < j => ~RowBefore(f[j], f[i], order)}

\* LIMIT $n OFFSET $m on an ordered result.
LimitOffset(sorted, limit, offset) ==
  SubSeq(sorted, offset + 1, IF offset + limit < Len(sorted) THEN offset + limit ELSE Len(sorted))

\* The results the page query may return: LIMIT and OFFSET read the
\* parameters their placeholders number.
SearchQueryResults(rows, userRows, v) ==
  LET params == queryParams(v)
      matching == MatchingRows(rows, userRows, whereConditions(v), params)
  IN {LimitOffset(f, params[limitParam(v)], params[offsetParam(v)]) :
        f \in Orderings(matching, orderClause(Val(v.sort_by)))}

\* SELECT COUNT(*) ... with the same WHERE clause and the sliced parameters.
CountQueryResult(rows, userRows, v) ==
  Cardinality(MatchingRows(rows, userRows, whereConditions(v), SliceOffLastTwo(queryParams(v))))

\* Math.ceil(a / b) and Math.floor(a / b) for a >= 0, b >= 1.
MathCeilDiv(a, b) == IF a % b = 0 THEN a \div b ELSE (a \div b) + 1
MathFloorDiv(a, b) == a \div b

\* totalPages with Math.floor in place of Math.ceil.
totalPages_Floor(totalCount, limit) == MathFloorDiv(totalCount, limit)

totalPages(totalCount, limit) == MathCeilDiv(totalCount, limit)
currentPage(offset, limit) == MathFloorDiv(offset, limit) + 1

\* The pagination object of the search response.
Pagination(totalCount, limit, offset) ==
  [total_count |-> totalCount,
   total_pages |-> totalPages(totalCount, limit),
   current_page |-> currentPage(offset, limit),
   limit |-> limit,
   offset |-> offset,
   has_next |-> currentPage(offset, limit) < totalPages(totalCount, limit),
   has_previous |-> currentPage(offset, limit) > 1]

(***************************************************************************)
(* Requests.  A request is a method, a path and, by route, a JSON body or  *)
(* a query string.                                                         *)
(***************************************************************************)
NoBody ==
  [address |-> None, city |-> None, state |-> None, zip_code |-> None,
   rent_amount |-> None, bedrooms |-> None, bathrooms |-> None,
   square_feet |-> None, description |-> None, landlord_id |-> None,
   landlord_verified |-> None]

NoQuery ==
  [city |-> None, state |-> None, zip_code |-> None,
   min_rent |-> None, max_rent |-> None,
   min_bedrooms |-> None, max_bedrooms |-> None,
   min_bathrooms |-> None, max_bathrooms |-> None,
   min_sqft |-> None, max_sqft |-> None,
   landlord_verified |-> None, sort_by |-> None,
   limit |-> None, offset |-> None]

\* A slot that holds no request, and the fields a request in flight has:
\* pc is "idle", the query the handler awaits, or "done"; qlog lists the
\* queries the handler has issued; sent counts its responses; the rest is
\* the handler's locals and the response.
NoRequest ==
  [method |-> "", path |-> <<>>, body |-> NoBody, query |-> NoQuery,
   handler |-> "", pc |-> "idle", qlog |-> <<>>, known |-> {},
   landlord |-> None, searchResult |-> None, countResult |-> None,
   status |-> 0, sent |-> 0, error |-> "", dberr |-> "",
   existing_property_id |-> None, property |-> None,
   properties |-> <<>>, pagination |-> None]

\* res.status(code).json({error, ...})
Respond(rq, code, error) ==
  [rq EXCEPT !.status = code, !.sent = @ + 1, !.error = error, !.pc = "done"]

\* await pool.query(...): the handler issues the query and yields.
Await(rq, q) == [rq EXCEPT !.pc = q, !.qlog = Append(@, q)]

(***************************************************************************)
(* POST /properties                                                        *)
(***************************************************************************)
\* createStart without the early return on a validation error.
createStart_NoReturn(rq) == Await(rq, "landlordCheck")

\* Validation, then the landlord lookup is issued.
createStart(rq) ==
  IF ~createPropertySchema(rq.body)
    THEN Respond(rq, 400, "Validation failed")
    ELSE Await(rq, "landlordCheck")

\* createAfterLandlordCheck without the test of landlord.role.
createAfterLandlordCheck_NoRoleTest(rq, rows) ==
  IF rows = {}
    THEN Respond(rq, 404, "Landlord not found")
    ELSE Await([rq EXCEPT !.landlord = Some(CHOOSE u \in rows : TRUE)], "duplicateCheck")

\* The code after the landlord lookup returned rows.
createAfterLandlordCheck(rq, rows) ==
  IF rows = {}
    THEN Respond(rq, 404, "Landlord not found")
    ELSE LET landlord == CHOOSE u \in rows : TRUE
         IN IF landlord.role # "landlord"
              THEN Respond([rq EXCEPT !.landlord = Some(landlord)], 403, "Invalid user role")
              ELSE Await([rq EXCEPT !.landlord = Some(landlord)], "duplicateCheck")

\* The code after the duplicate check returned rows, first being rows[0]
\* when there is one.
createAfterDuplicateCheck(rq, rows, first) ==
  IF rows # {}
    THEN Respond([rq EXCEPT !.existing_property_id = Some(first.id)],
                 409, "Property already exists")
    ELSE Await(rq, "insert")

\* The code after the insert returned the new row.
createAfterInsert(rq, newProperty) ==
  Respond([rq EXCEPT !.property = Some(newProperty)], 201, "")

\* createCatch without the test of error.code.
createCatch_Always500(rq, code) ==
  Respond([rq EXCEPT !.dberr = code], 500, "Internal server error")

\* catch (error): a foreign-key violation is a 400, anything else a 500.
createCatch(rq, code) ==
  IF code = "23503"
    THEN Respond([rq EXCEPT !.dberr = code], 400, "Invalid landlord_id")
    ELSE Respond([rq EXCEPT !.dberr = code], 500, "Internal server error")

(***************************************************************************)
(* GET /properties/:id                                                     *)
(***************************************************************************)
getByIdStart(rq) ==
  IF ~Has(parseInt(rq.path[2]))
    THEN Respond(rq, 400, "Invalid property ID")
    ELSE Await(rq, "getQuery")

\* SELECT p.*, u.first_name ... FROM properties p JOIN users u ... WHERE p.id = $1
GetQueryResult(rows, userRows, propertyId) ==
  {p \in JoinUsers(rows, userRows) : p.id = propertyId}

\* getByIdAfterQuery without the return of the 404 branch.
getByIdAfterQuery_NoReturn(rq, rows) ==
  IF rows = {}
    THEN Respond(Respond(rq, 404, "Property not found"), 200, "")
    ELSE Respond([rq EXCEPT !.property = Some(CHOOSE p \in rows : TRUE)], 200, "")

getByIdAfterQuery(rq, rows) ==
  IF rows = {}
    THEN Respond(rq, 404, "Property not found")
    ELSE Respond([rq EXCEPT !.property = Some(CHOOSE p \in rows : TRUE)], 200, "")

(***************************************************************************)
(* GET /properties                                                         *)
(***************************************************************************)
\* Validation, then Promise.all issues the page query and the count query.
searchStart(rq) ==
  IF ~searchPropertiesSchema(rq.query)
    THEN Respond(rq, 400, "Invalid search parameters")
    ELSE [Await(Await(rq, "searchQuery"), "countQuery") EXCEPT !.pc = "promiseAll"]

\* The code after Promise.all resolved.
searchRespond(rq) ==
  LET v == SearchValue(rq.query)
  IN Respond([rq EXCEPT
                !.properties = Val(rq.searchResult),
                !.pagination = Some(Pagination(Val(rq.countResult),
                                               Val(v.limit), Val(v.offset)))],
             200, "")

\* One of the two queries returned: the handler goes on when both have.
searchAfterQuery(rq) ==
  IF Has(rq.searchResult) /\ Has(rq.countResult) THEN searchRespond(rq) ELSE rq

(***************************************************************************)
(* The other handlers.                                                     *)
(***************************************************************************)
setupStart(rq) == Await(rq, "setupQuery")
statsStart(rq) == Await(rq, "statsQuery")
staticRespond(rq) == Respond(rq, 200, "")
\* No route matches: Express answers 404 itself.
notFoundRespond(rq) == Respond(rq, 404, "Not Found")

\* The catch block of the handlers other than create.
handlerCatch(rq, code) ==
  Respond([rq EXCEPT !.dberr = code], 500,
          IF rq.handler = "setup" THEN "Failed to create properties table"
                                  ELSE "Internal server error")

\* The request is routed and the handler runs to its first await.
Dispatch(rq) ==
  CASE rq.handler = "create" -> createStart(rq)
    [] rq.handler = "getById" -> getByIdStart(rq)
    [] rq.handler = "search" -> searchStart(rq)
    [] rq.handler = "stats" -> statsStart(rq)
    [] rq.handler = "setup" -> setupStart(rq)
    [] rq.handler \in {"health", "root", "test"} -> staticRespond(rq)
    [] OTHER -> notFoundRespond(rq)

(***************************************************************************)
(* State.                                                                  *)
(***************************************************************************)
VARIABLES
  users,       \* the rows of table users
  properties,  \* the rows of table properties
  nextId,      \* the SERIAL sequence of properties.id
  clock,       \* NOW()
  req,         \* slot -> the request it handles
  started,     \* requests received so far
  acked        \* ids of the properties whose 201 response has been sent

vars == <<users, properties, nextId, clock, req, started, acked>>

\* Requests the model lets the service receive in one behaviour.
MaxRequests == 3
\* Requests in flight at the same time.
Slots == {1, 2}

UserRows == {[id |-> 1, role |-> "landlord"], [id |-> 2, role |-> "tenant"]}

AddrElm == <<"1", " ", "E", "l", "m">>
AddrELM == <<"1", " ", "E", "L", "M">>
AddrOak == <<"2", " ", "O", "a", "k">>
AddrShort == <<"1", " ", "E">>
CityAustin == <<"A", "u", "s", "t", "i", "n">>
CityWaco == <<"W", "a", "c", "o">>
CityReno == <<"R", "e", "n", "o">>
StateTX == <<"T", "X">>
StateNV == <<"N", "V">>
Zip78701 == <<"7", "8", "7", "0", "1">>
Zip78702 == <<"7", "8", "7", "0", "2">>

Body(address, zip_code, rent_amount, landlord_id) ==
  [NoBody EXCEPT !.address = Some(address), !.city = Some(CityAustin),
                 !.state = Some(StateTX), !.zip_code = Some(zip_code),
                 !.rent_amount = rent_amount, !.landlord_id = Some(landlord_id)]

\* The bodies POST /properties receives: the same address in two
\* spellings by a landlord (1), the same address by a tenant (2), a body
\* that fails validation and names a user that does not exist (3), and a
\* body that carries landlord_verified.
CreateBodies ==
  { Body(AddrElm, Zip78701, Some(1000), 1),
    Body(AddrELM, Zip78701, None, 1),
    Body(AddrElm, Zip78701, Some(1000), 2),
    Body(AddrShort, Zip78701, Some(1000), 3),
    [Body(AddrOak, Zip78702, Some(1000), 1) EXCEPT !.landlord_verified = Some(TRUE)] }

\* The :id segments GET /properties/:id receives: two numbers, a word, and
\* a number followed by a letter.
SegNumericPrefix == <<"1", "a">>
IdSegments == { <<"1">>, <<"2">>, SegStats, SegNumericPrefix }

MainQueries ==
  { NoQuery,
    [NoQuery EXCEPT !.min_rent = Some(1000), !.limit = Some(1)] }

Request(method, path, body, query) ==
  [method |-> method, path |-> path, body |-> body, query |-> query]

MainRequests ==
  {Request("POST", <<SegProperties>>, b, NoQuery) : b \in CreateBodies}
    \cup {Request("GET", <<SegProperties, seg>>, NoBody, NoQuery) : seg \in IdSegments}
    \cup {Request("GET", <<SegProperties>>, NoBody, q) : q \in MainQueries}
    \cup {Request("GET", <<SegSetup>>, NoBody, NoQuery)}

Init ==
  /\ users = UserRows
  /\ properties = {}
  /\ nextId = 1
  /\ clock = 1
  /\ req = [s \in Slots |-> NoRequest]
  /\ started = 0
  /\ acked = {}

(***************************************************************************)
(* Actions.                                                                *)
(***************************************************************************)
\* A request from R arrives: it is routed and its handler runs to its first
\* await (or to its response).  It takes the first slot that is free.
Receive(s, R, max) ==
  /\ req[s].pc \in {"idle", "done"}
  /\ \A t \in Slots : t < s => req[t].pc \notin {"idle", "done"}
  /\ started < max
  /\ \E r \in R :
       req' = [req EXCEPT ![s] =
                 Dispatch([NoRequest EXCEPT
                             !.method = r.method, !.path = r.path,
                             !.body = r.body, !.query = r.query,
                             !.handler = Route(r.method, r.path),
                             !.known = acked])]
  /\ started' = started + 1
  /\ UNCHANGED <<users, properties, nextId, clock, acked>>

\* The store runs the landlord lookup.
CreateLandlordCheck(s) ==
  /\ req[s].pc = "landlordCheck"
  /\ req' = [req EXCEPT ![s] =
               createAfterLandlordCheck(req[s],
                 LandlordLookup(users, Val(req[s].body.landlord_id)))]
  /\ UNCHANGED <<users, properties, nextId, clock, started, acked>>

\* The store runs the duplicate check; without ORDER BY any matching row
\* may be rows[0].
CreateDuplicateCheck(s) ==
  /\ req[s].pc = "duplicateCheck"
  /\ LET rows == DuplicateLookup(properties, Val(req[s].body.address),
                                 Val(req[s].body.zip_code))
     IN \E first \in (IF rows = {} THEN {NoRequest} ELSE rows) :
          req' = [req EXCEPT ![s] = createAfterDuplicateCheck(req[s], rows, first)]
  /\ UNCHANGED <<users, properties, nextId, clock, started, acked>>

\* The store runs the INSERT: the sequence gives the id, the foreign key
\* is checked, and the row is stored or error 23503 is raised.  NOW()
\* advances from one statement to the next.
CreateInsert(s) ==
  /\ req[s].pc = "insert"
  /\ LET newProperty == InsertedRow(req[s].body, nextId, clock)
     IN /\ clock' = clock + 1
        /\ nextId' = nextId + 1
        /\ IF ForeignKeyHolds(users, Val(req[s].body.landlord_id))
             THEN /\ properties' = properties \cup {newProperty}
                  /\ req' = [req EXCEPT ![s] = createAfterInsert(req[s], newProperty)]
                  /\ acked' = acked \cup {newProperty.id}
             ELSE /\ req' = [req EXCEPT ![s] = createCatch(req[s], "23503")]
                  /\ UNCHANGED <<properties, acked>>
  /\ UNCHANGED <<users, started>>

\* The store runs the query of GET /properties/:id.
GetByIdQuery(s) ==
  /\ req[s].pc = "getQuery"
  /\ req' = [req EXCEPT ![s] =
               getByIdAfterQuery(req[s],
                 GetQueryResult(properties, users, Val(parseInt(req[s].path[2]))))]
  /\ UNCHANGED <<users, properties, nextId, clock, started, acked>>

\* The store runs the page query of the search.
SearchPageQuery(s) ==
  /\ req[s].pc = "promiseAll"
  /\ ~Has(req[s].searchResult)
  /\ \E rows \in SearchQueryResults(properties, users, SearchValue(req[s].query)) :
       req' = [req EXCEPT ![s] = searchAfterQuery([req[s] EXCEPT !.searchResult = Some(rows)])]
  /\ UNCHANGED <<users, properties, nextId, clock, started, acked>>

\* The store runs the count query of the search.
SearchCountQuery(s) ==
  /\ req[s].pc = "promiseAll"
  /\ ~Has(req[s].countResult)
  /\ req' = [req EXCEPT ![s] =
               searchAfterQuery([req[s] EXCEPT !.countResult =
                 Some(CountQueryResult(properties, users, SearchValue(req[s].query)))])]
  /\ UNCHANGED <<users, properties, nextId, clock, started, acked>>

\* The store runs CREATE TABLE IF NOT EXISTS: the table exists, nothing changes.
SetupQuery(s) ==
  /\ req[s].pc = "setupQuery"
  /\ req' = [req EXCEPT ![s] = Respond(req[s], 200, "")]
  /\ UNCHANGED <<users, properties, nextId, clock, started, acked>>

\* The query a handler awaits is rejected by the store or the pool with an
\* error that is no constraint violation; the handler's catch block runs.
QueryFails(s) ==
  /\ req[s].pc \in {"landlordCheck", "duplicateCheck", "insert", "getQuery",
                    "promiseAll", "setupQuery", "statsQuery"}
  /\ req' = [req EXCEPT ![s] =
               IF req[s].handler = "create"
                 THEN createCatch(req[s], "08006")
                 ELSE handlerCatch(req[s], "08006")]
  /\ UNCHANGED <<users, properties, nextId, clock, started, acked>>

\* The owner of table users deletes a row; the foreign key of properties
\* forbids it while a property references the row.
RemoveUser(u) ==
  /\ u \in users
  /\ \A p \in properties : p.landlord_id # u.id
  /\ users' = users \ {u}
  /\ UNCHANGED <<properties, nextId, clock, req, started, acked>>

Next ==
  \/ \E s \in Slots : Receive(s, MainRequests, MaxRequests)
  \/ \E s \in Slots : CreateLandlordCheck(s)
  \/ \E s \in Slots : CreateDuplicateCheck(s)
  \/ \E s \in Slots : CreateInsert(s)
  \/ \E s \in Slots : GetByIdQuery(s)
  \/ \E s \in Slots : SearchPageQuery(s)
  \/ \E s \in Slots : SearchCountQuery(s)
  \/ \E s \in Slots : SetupQuery(s)
  \/ \E s \in Slots : QueryFails(s)
  \/ \E u \in UserRows : RemoveUser(u)

Spec == Init /\ [][Next]_vars

\* The store settles every query it is sent, with a result or with an
\* error, so the handler that awaits it is resumed.
HandlerStep(s) ==
  \/ CreateLandlordCheck(s)
  \/ CreateDuplicateCheck(s)
  \/ CreateInsert(s)
  \/ GetByIdQuery(s)
  \/ SearchPageQuery(s)
  \/ SearchCountQuery(s)
  \/ SetupQuery(s)
  \/ QueryFails(s)

\* The requests one after the other, each handled to its response: every
\* handler runs against every store the earlier requests left.
NextFair ==
  \/ Receive(1, MainRequests, MaxRequests)
  \/ HandlerStep(1)
  \/ \E u \in UserRows : RemoveUser(u)

FairSpec == Init /\ [][NextFair]_vars /\ WF_vars(HandlerStep(1))

(***************************************************************************)
(* The search handler on its own: the store holds rows that POST           *)
(* /properties created and one GET /properties is received.                *)
(***************************************************************************)
SearchBody(address, city, state, zip_code, rent, beds, baths, sqft) ==
  [NoBody EXCEPT !.address = Some(address), !.city = Some(city),
                 !.state = Some(state), !.zip_code = Some(zip_code),
                 !.rent_amount = rent, !.bedrooms = beds, !.bathrooms = baths,
                 !.square_feet = sqft, !.landlord_id = Some(1)]

SearchBodies ==
  << SearchBody(AddrElm, CityAustin, StateTX, Zip78701, Some(1000), Some(2), Some(1), Some(800)),
     SearchBody(AddrOak, CityWaco, StateTX, Zip78702, None, None, None, None),
     SearchBody(AddrELM, CityReno, StateNV, Zip78702, Some(2000), Some(3), Some(2), Some(1200)) >>

\* The rows that inserting the bodies chosen by I, in order, leaves.
RECURSIVE RowsOf(_, _, _)
RowsOf(I, i, id) ==
  IF i > Len(SearchBodies) THEN {}
  ELSE IF i \in I /\ createPropertySchema(SearchBodies[i])
    THEN {InsertedRow(SearchBodies[i], id, id)} \cup RowsOf(I, i + 1, id + 1)
    ELSE RowsOf(I, i + 1, id)

SearchStores == {RowsOf(I, 1, 1) : I \in SUBSET (1..Len(SearchBodies))}

RentQueries ==
  {[NoQuery EXCEPT !.min_rent = lo, !.max_rent = hi] :
     lo \in {None, Some(0), Some(1000), Some(2000)},
     hi \in {None, Some(1000), Some(2000), Some(50001)}}
BedroomQueries ==
  {[NoQuery EXCEPT !.min_bedrooms = lo, !.max_bedrooms = hi] :
     lo \in {None, Some(2), Some(3)}, hi \in {None, Some(2), Some(3), Some(21)}}
BathroomQueries ==
  {[NoQuery EXCEPT !.min_bathrooms = lo, !.max_bathrooms = hi] :
     lo \in {None, Some(1), Some(2)}, hi \in {None, Some(1), Some(2)}}
SqftQueries ==
  {[NoQuery EXCEPT !.min_sqft = lo, !.max_sqft = hi] :
     lo \in {None, Some(800), Some(1200)}, hi \in {None, Some(800), Some(1200)}}
TextQueries ==
  {[NoQuery EXCEPT !.city = c, !.state = st, !.zip_code = z, !.landlord_verified = lv] :
     c \in {None, Some(<<"a", "u">>), Some(<<"E", "N">>), Some(<<"a", "_">>),
            Some(<<"%", "%">>), Some(<<"x">>)},
     st \in {None, Some(<<"t", "x">>)},
     z \in {None, Some(Zip78702), Some(<<"7", "8">>)},
     lv \in {None, Some(TRUE), Some(FALSE)}}
PagingQueries ==
  {[NoQuery EXCEPT !.limit = l, !.offset = o, !.sort_by = sb, !.min_bedrooms = lo] :
     l \in {None, Some(0), Some(1), Some(2), Some(101)},
     o \in {None, Some(1), Some(3)},
     sb \in {None, Some("newest"), Some("oldest"), Some("rent_asc"),
             Some("rent_desc"), Some("sqft_asc"), Some("sqft_desc"), Some("price")},
     lo \in {None, Some(2)}}

\* One query per subset of the twelve filters, each filter with a fixed
\* value, and the same with a limit and an offset.
FilterValues ==
  [NoQuery EXCEPT !.city = Some(<<"a", "u">>), !.state = Some(<<"t", "x">>),
                  !.zip_code = Some(Zip78701),
                  !.min_rent = Some(1000), !.max_rent = Some(2000),
                  !.min_bedrooms = Some(2), !.max_bedrooms = Some(3),
                  !.min_bathrooms = Some(1), !.max_bathrooms = Some(2),
                  !.min_sqft = Some(800), !.max_sqft = Some(1200),
                  !.landlord_verified = Some(FALSE)]
SubsetQuery(F, l, o) ==
  [f \in DOMAIN NoQuery |->
     IF f \in F THEN FilterValues[f]
     ELSE IF f = "limit" THEN l
     ELSE IF f = "offset" THEN o
     ELSE None]
SubsetQueries ==
  {SubsetQuery(F, None, None) : F \in SUBSET {FilterOrder[i] : i \in 1..Len(FilterOrder)}}
    \cup {SubsetQuery(F, Some(1), Some(1)) :
            F \in SUBSET {"city", "state", "min_rent", "max_rent", "min_sqft", "landlord_verified"}}

SearchQueries ==
  RentQueries \cup BedroomQueries \cup BathroomQueries \cup SqftQueries
    \cup TextQueries \cup PagingQueries \cup SubsetQueries

SearchRequests == {Request("GET", <<SegProperties>>, NoBody, q) : q \in SearchQueries}

InitSearch ==
  /\ users = UserRows
  /\ properties \in SearchStores
  /\ nextId = Cardinality(properties) + 1
  /\ clock = Cardinality(properties) + 1
  /\ req = [s \in Slots |-> NoRequest]
  /\ started = 0
  /\ acked = {p.id : p \in properties}

NextSearch ==
  \/ Receive(1, SearchRequests, 1)
  \/ SearchPageQuery(1)
  \/ SearchCountQuery(1)
  \/ QueryFails(1)

SpecSearch == InitSearch /\ [][NextSearch]_vars

(***************************************************************************)
(* The pagination arithmetic on its own: a valid search awaits its count   *)
(* query, which returns any total up to MaxTotal.                          *)
(***************************************************************************)
MaxTotal == 10
MaxOffset == 10

PageQueries ==
  {[NoQuery EXCEPT !.limit = l, !.offset = o] :
     l \in {None} \cup {Some(n) : n \in 1..100},
     o \in {None} \cup {Some(n) : n \in 0..MaxOffset}}

InitPage ==
  /\ users = UserRows
  /\ properties = {}
  /\ nextId = 1
  /\ clock = 1
  /\ \E q \in PageQueries :
       req = [s \in Slots |->
                IF s = 1
                  THEN [searchStart([NoRequest EXCEPT
                                       !.method = "GET", !.path = <<SegProperties>>,
                                       !.query = q, !.handler = "search"])
                          EXCEPT !.searchResult = Some(<<>>)]
                  ELSE NoRequest]
  /\ started = 1
  /\ acked = {}

\* The count query returns total and the handler computes the response.
CountReturns(s, total) ==
  /\ req[s].pc = "promiseAll"
  /\ ~Has(req[s].countResult)
  /\ req' = [req EXCEPT ![s] = searchAfterQuery([req[s] EXCEPT !.countResult = Some(total)])]
  /\ UNCHANGED <<users, properties, nextId, clock, started, acked>>

NextPage == \E total \in 0..MaxTotal : CountReturns(1, total)

SpecPage == InitPage /\ [][NextPage]_vars

(***************************************************************************)
(* Properties.                                                             *)
(***************************************************************************)
Done(s) == req[s].pc = "done"
IsCreate(s) == req[s].handler = "create"
SameKey(address, zip_code, p) ==
  LOWER(p.address) = LOWER(address) /\ p.zip_code = zip_code
CreateSteps == <<"landlordCheck", "duplicateCheck", "insert">>

\* C1: a GET /properties/stats that meets no store error is answered by
\* the statistics handler with 200.
C1_StatsAnswered ==
  \A s \in Slots :
    (/\ Done(s)
     /\ req[s].method = "GET"
     /\ req[s].path = <<SegProperties, SegStats>>
     /\ req[s].dberr = "")
      => (req[s].handler = "stats" /\ req[s].status = 200)

\* C2: no two rows of properties have the same zip_code and addresses
\* that are equal ignoring case.
C2_NoDuplicateRows ==
  \A p, q \in properties : p # q => ~SameKey(p.address, p.zip_code, q)

\* C3: a valid POST by a landlord, received after the 201 of a property
\* with the same address (ignoring case) and zip, returns 409 with that
\* property's id and inserts nothing; GET /properties/:id of a property
\* whose 201 was sent returns 200 with that property.
C3_LaterDuplicateIs409 ==
  \A s \in Slots :
    /\ (/\ Done(s) /\ IsCreate(s) /\ req[s].dberr = ""
        /\ createPropertySchema(req[s].body)
        /\ Has(req[s].landlord) /\ Val(req[s].landlord).role = "landlord")
         => \A p \in properties :
              (/\ p.id \in req[s].known
               /\ SameKey(Val(req[s].body.address), Val(req[s].body.zip_code), p))
                => /\ req[s].status = 409
                   /\ req[s].existing_property_id = Some(p.id)
                   /\ req[s].property = None
    /\ (/\ Done(s) /\ req[s].handler = "getById" /\ req[s].dberr = ""
        /\ Has(parseInt(req[s].path[2])))
         => \A p \in properties :
              (p.id \in req[s].known /\ p.id = Val(parseInt(req[s].path[2])))
                => req[s].status = 200 /\ req[s].property = Some(p)

\* C4: a valid POST whose landlord lookup finds a user whose role is not
\* 'landlord' is answered 403 right after the lookup; it is never answered
\* 201 and no row of properties belongs to a user who is not a landlord.
C4_NonLandlordForbidden ==
  /\ \A s \in Slots :
       (IsCreate(s) /\ Has(req[s].landlord) /\ Val(req[s].landlord).role # "landlord")
         => /\ Done(s)
            /\ req[s].status = 403
            /\ req[s].property = None
            /\ req[s].qlog = <<"landlordCheck">>
  /\ \A s \in Slots :
       (/\ IsCreate(s) /\ Has(req[s].body.landlord_id)
        /\ \E u \in UserRows : u.id = Val(req[s].body.landlord_id) /\ u.role # "landlord")
         => /\ req[s].status # 201
            /\ req[s].pc # "insert"
  /\ \A p \in properties :
       \A u \in UserRows : u.id = p.landlord_id => u.role = "landlord"

\* C4 witness: a tenant's POST for an address that is already stored was
\* answered 403.
C4_Witness ==
  \E s \in Slots :
    /\ Done(s) /\ IsCreate(s) /\ req[s].status = 403
    /\ Val(req[s].landlord).role = "tenant"
    /\ DuplicateLookup(properties, Val(req[s].body.address),
                       Val(req[s].body.zip_code)) # {}

\* C5: POST /properties issues landlord lookup, duplicate check and insert
\* in this order and stops at the first step that fails: an invalid body
\* is a 400 with no query, 404/403 come after the lookup alone, 409 after
\* lookup and duplicate check by a landlord, 201 after all three.
C5_ChecksInOrder ==
  \A s \in Slots :
    IsCreate(s) =>
      /\ Len(req[s].qlog) <= Len(CreateSteps)
      /\ req[s].qlog = SubSeq(CreateSteps, 1, Len(req[s].qlog))
      /\ ~createPropertySchema(req[s].body)
           => (Done(s) /\ req[s].status = 400 /\ req[s].qlog = <<>>)
      /\ (Done(s) /\ req[s].status = 400 /\ req[s].dberr = "")
           => ~createPropertySchema(req[s].body)
      /\ (Done(s) /\ req[s].status \in {404, 403})
           => req[s].qlog = SubSeq(CreateSteps, 1, 1)
      /\ (Done(s) /\ req[s].status = 409)
           => /\ req[s].qlog = SubSeq(CreateSteps, 1, 2)
              /\ Has(req[s].landlord) /\ Val(req[s].landlord).role = "landlord"
      /\ (Done(s) /\ req[s].status = 201) => req[s].qlog = CreateSteps

\* C5 witness: a body that fails validation and names a user that does
\* not exist was answered 400.
C5_Witness ==
  \E s \in Slots :
    /\ Done(s) /\ IsCreate(s) /\ req[s].status = 400
    /\ ~createPropertySchema(req[s].body)
    /\ LandlordLookup(users, Val(req[s].body.landlord_id)) = {}

\* C6: the step in which a store error ends a POST /properties answers
\* 400 'Invalid landlord_id' when the error is the foreign-key violation
\* 23503 of the insert (the landlord had passed the lookup) and 500 for
\* any other error, and leaves table properties as it was.
C6_ForeignKeyMapped ==
  [][\A s \in Slots :
       (/\ IsCreate(s) /\ ~Done(s)
        /\ req'[s].pc = "done" /\ req'[s].dberr # "")
         => /\ properties' = properties
            /\ IF req'[s].dberr = "23503"
                 THEN /\ req'[s].status = 400
                      /\ req'[s].error = "Invalid landlord_id"
                      /\ req[s].pc = "insert"
                      /\ Has(req[s].landlord) /\ Val(req[s].landlord).role = "landlord"
                 ELSE req'[s].status = 500]_vars

\* C6 witness: an insert raised 23503 after its landlord was removed and
\* the request was answered 400.
C6_Witness ==
  \E s \in Slots :
    /\ Done(s) /\ IsCreate(s) /\ req[s].dberr = "23503" /\ req[s].status = 400
    /\ req[s].qlog = CreateSteps

\* What the claims call a property that satisfies the supplied filters.
IsSubstring(a, b) ==
  \E i \in 0..(Len(b) - Len(a)) : SubSeq(b, i + 1, i + Len(a)) = a
AtLeast(col, bound) == Has(bound) => (Has(col) /\ Val(col) >= Val(bound))
AtMost(col, bound) == Has(bound) => (Has(col) /\ Val(col) <= Val(bound))
MeetsFilters(p, q) ==
  /\ Has(q.city) => IsSubstring(LOWER(Val(q.city)), LOWER(p.city))
  /\ Has(q.state) => LOWER(p.state) = LOWER(Val(q.state))
  /\ Has(q.zip_code) => p.zip_code = Val(q.zip_code)
  /\ AtLeast(p.rent_amount, q.min_rent) /\ AtMost(p.rent_amount, q.max_rent)
  /\ AtLeast(p.bedrooms, q.min_bedrooms) /\ AtMost(p.bedrooms, q.max_bedrooms)
  /\ AtLeast(p.bathrooms, q.min_bathrooms) /\ AtMost(p.bathrooms, q.max_bathrooms)
  /\ AtLeast(p.square_feet, q.min_sqft) /\ AtMost(p.square_feet, q.max_sqft)
  /\ Has(q.landlord_verified) => p.landlord_verified = Val(q.landlord_verified)
IsSearch(s) == req[s].handler = "search"

\* C7: every property of a search response satisfies every supplied
\* filter, and the rows the search counts are all the rows that satisfy
\* the supplied filters (a filter that is not supplied excludes none).
C7_FiltersExact ==
  \A s \in Slots :
    (Done(s) /\ IsSearch(s) /\ req[s].status = 200)
      => /\ \A i \in 1..Len(req[s].properties) :
              MeetsFilters(req[s].properties[i], req[s].query)
         /\ Val(req[s].pagination).total_count =
              Cardinality({p \in properties : MeetsFilters(p, req[s].query)})

\* C8: total_pages is the least number of pages of limit rows that hold
\* total_count rows, and current_page is the page of limit rows that
\* holds row offset (limit 20 and offset 0 when not supplied).
C8_PageArithmetic ==
  \A s \in Slots :
    (Done(s) /\ IsSearch(s) /\ req[s].status = 200)
      => LET limit == IF Has(req[s].query.limit) THEN Val(req[s].query.limit) ELSE 20
             offset == IF Has(req[s].query.offset) THEN Val(req[s].query.offset) ELSE 0
             total == Val(req[s].countResult)
             page == Val(req[s].pagination)
         IN /\ page.total_count = total
            /\ page.total_pages * limit >= total
            /\ (page.total_pages - 1) * limit < total
            /\ (page.current_page - 1) * limit <= offset
            /\ offset < page.current_page * limit

\* C8 witness: a response whose total and offset are no multiples of the
\* limit and that has several pages.
C8_Witness ==
  \E s \in Slots :
    /\ Done(s) /\ IsSearch(s) /\ req[s].status = 200
    /\ Has(req[s].query.limit) /\ Has(req[s].query.offset)
    /\ Val(req[s].countResult) % Val(req[s].query.limit) # 0
    /\ Val(req[s].query.offset) % Val(req[s].query.limit) # 0
    /\ Val(req[s].pagination).total_pages > 1
    /\ Val(req[s].pagination).current_page > 1

\* The request with one key of its query removed.
Without(q, f) == [q EXCEPT ![f] = None]
\* C9 for one pair with bounds lo < x <= hi (or lo <= x <= hi): when the
\* rest of the query is valid and both values are in range, the answer is
\* 400 exactly when max < min.
PairRejectedIffBelow(s, fmin, fmax, lo, hi) ==
  LET q == req[s].query
  IN (/\ Has(q[fmin]) /\ Has(q[fmax])
      /\ searchPropertiesSchema(Without(q, fmax))
      /\ Val(q[fmax]) >= lo /\ Val(q[fmax]) <= hi)
       => (req[s].status = 400 <=> Val(q[fmax]) < Val(q[fmin]))

\* C9: each of the four range pairs is rejected with 400 exactly when
\* max_* < min_*; max_* = min_* is accepted.
C9_RangePairs ==
  \A s \in Slots :
    (Done(s) /\ IsSearch(s) /\ req[s].dberr = "")
      => /\ PairRejectedIffBelow(s, "min_rent", "max_rent", 1, 50000)
         /\ PairRejectedIffBelow(s, "min_bedrooms", "max_bedrooms", 0, 20)
         /\ PairRejectedIffBelow(s, "min_bathrooms", "max_bathrooms", 1, 20)
         /\ PairRejectedIffBelow(s, "min_sqft", "max_sqft", 1, 50000)

\* C10: a GET /properties with max_rent < min_rent is answered 400 and
\* its handler issues neither the page query nor the count query.
C10_BadRentRangeNoQuery ==
  \A s \in Slots :
    (/\ IsSearch(s)
     /\ Has(req[s].query.min_rent) /\ Has(req[s].query.max_rent)
     /\ Val(req[s].query.max_rent) < Val(req[s].query.min_rent))
      => /\ Done(s)
         /\ req[s].status = 400
         /\ req[s].qlog = <<>>
         /\ req[s].searchResult = None /\ req[s].countResult = None

\* C10 witness: a request whose min_rent and max_rent are each in range,
\* with max_rent < min_rent, was answered 400.
C10_Witness ==
  \E s \in Slots :
    /\ Done(s) /\ IsSearch(s) /\ req[s].status = 400
    /\ Has(req[s].query.min_rent) /\ Has(req[s].query.max_rent)
    /\ Val(req[s].query.min_rent) = 2000 /\ Val(req[s].query.max_rent) = 1000

IsNumeric(seg) == seg # <<>> /\ \A i \in 1..Len(seg) : IsDigit(seg[i])

\* C11: a GET /properties/:id that meets no store error returns 400
\* without a store query when the id segment is not numeric (a numeric
\* prefix followed by other characters included), 200 with the property
\* and its landlord when a property with that id exists, and 404 only for
\* an integer id.
C11_GetByIdAnswers ==
  \A s \in Slots :
    (Done(s) /\ req[s].handler = "getById" /\ req[s].dberr = "")
      => LET seg == req[s].path[2]
         IN /\ ~IsNumeric(seg) => (req[s].status = 400 /\ req[s].qlog = <<>>)
            /\ req[s].status = 404 => IsNumeric(seg)
            /\ req[s].status = 200 =>
                 /\ IsNumeric(seg)
                 /\ \E p \in properties :
                      /\ p.id = DecimalValue(seg)
                      /\ req[s].property = Some(p)
                      /\ \E u \in UserRows : u.id = p.landlord_id
            /\ (IsNumeric(seg) /\ DecimalValue(seg) \in req[s].known)
                 => req[s].status = 200

\* C12: every row of properties has landlord_verified = false and every
\* 201 reports landlord_verified false, also when a POST body carries a
\* landlord_verified field: such a body produces no row.
C12_NeverVerified ==
  /\ \A p \in properties : p.landlord_verified = FALSE
  /\ \A s \in Slots :
       (Done(s) /\ IsCreate(s) /\ req[s].status = 201)
         => (Has(req[s].property) /\ Val(req[s].property).landlord_verified = FALSE)
  /\ \A s \in Slots :
       (IsCreate(s) /\ Has(req[s].body.landlord_verified))
         => (req[s].property = None /\ req[s].status # 201)
C12_Witness ==
  /\ properties # {}
  /\ \E s, t \in Slots :
       /\ Done(s) /\ IsCreate(s) /\ req[s].status = 201
       /\ Done(t) /\ IsCreate(t) /\ req[t].body.landlord_verified = Some(TRUE)

InFlight(s) == req[s].pc \notin {"idle", "done"}
OneResponse(s) ==
  /\ req[s].sent <= 1
  /\ InFlight(s) => req[s].sent = 0
  /\ Done(s) => /\ req[s].sent = 1
                /\ req[s].status \in {200, 201, 400, 403, 404, 409, 500}
  /\ req[s].dberr # "" => (Done(s) /\ req[s].status \in {400, 500})

\* C13: every request ends with exactly one response: no handler sends a
\* second response, a failed store query is answered by one 400 or 500,
\* and every request that awaits the store is eventually answered.
C13_ExactlyOneResponse ==
  /\ [](\A s \in Slots : OneResponse(s))
  /\ \A s \in Slots : InFlight(s) ~> Done(s)
C13_Witness ==
  /\ properties # {}
  /\ \E s \in Slots :
       /\ Done(s) /\ req[s].sent = 1 /\ req[s].status = 500
       /\ req[s].dberr = "08006" /\ Len(req[s].qlog) >= 2

\* Rows a then b of a page respect an order by a nullable column that
\* puts NULL last.
NullsLastOrdered(x, y, asc) ==
  /\ ~(~Has(x) /\ Has(y))
  /\ (Has(x) /\ Has(y)) => (IF asc THEN Val(x) <= Val(y) ELSE Val(x) >= Val(y))

\* C14: the page of a search result is ordered by created_at descending
\* when sort_by is absent (or newest); under rent_asc, rent_desc, sqft_asc
\* and sqft_desc every row with a null sort value comes after every row
\* with a value, and the rows with a value are in the requested order.
C14_PageOrder ==
  \A s \in Slots :
    (Done(s) /\ IsSearch(s) /\ req[s].status = 200)
      => LET sb == req[s].query.sort_by
             page == req[s].properties
         IN \A i, j \in 1..Len(page) :
              i < j =>
                /\ sb \in {None, Some("newest")}
                     => page[i].created_at >= page[j].created_at
                /\ sb = Some("oldest")
                     => page[i].created_at <= page[j].created_at
                /\ sb = Some("rent_asc")
                     => NullsLastOrdered(page[i].rent_amount, page[j].rent_amount, TRUE)
                /\ sb = Some("rent_desc")
                     => NullsLastOrdered(page[i].rent_amount, page[j].rent_amount, FALSE)
                /\ sb = Some("sqft_asc")
                     => NullsLastOrdered(page[i].square_feet, page[j].square_feet, TRUE)
                /\ sb = Some("sqft_desc")
                     => NullsLastOrdered(page[i].square_feet, page[j].square_feet, FALSE)
C14_Witness ==
  \E s \in Slots :
    /\ Done(s) /\ IsSearch(s) /\ req[s].status = 200
    /\ req[s].query.sort_by = Some("rent_desc")
    /\ Len(req[s].properties) = 3
    /\ ~Has(req[s].properties[3].rent_amount)
    /\ Val(req[s].properties[1].rent_amount) > Val(req[s].properties[2].rent_amount)

\* The condition and the value filter f of query q stands for.
FilterValue(q, f) ==
  IF f = "city" THEN <<"%">> \o Val(q.city) \o <<"%">> ELSE Val(q[f])
FilterHolds(p, q, f) ==
  CASE f = "city" -> LikeMatch(LOWER(p.city), LOWER(FilterValue(q, f)))
    [] f = "state" -> LOWER(p.state) = LOWER(Val(q.state))
    [] f = "zip_code" -> p.zip_code = Val(q.zip_code)
    [] f = "landlord_verified" -> p.landlord_verified = Val(q.landlord_verified)
    [] f = "min_rent" -> AtLeast(p.rent_amount, q.min_rent)
    [] f = "max_rent" -> AtMost(p.rent_amount, q.max_rent)
    [] f = "min_bedrooms" -> AtLeast(p.bedrooms, q.min_bedrooms)
    [] f = "max_bedrooms" -> AtMost(p.bedrooms, q.max_bedrooms)
    [] f = "min_bathrooms" -> AtLeast(p.bathrooms, q.min_bathrooms)
    [] f = "max_bathrooms" -> AtMost(p.bathrooms, q.max_bathrooms)
    [] f = "min_sqft" -> AtLeast(p.square_feet, q.min_sqft)
    [] f = "max_sqft" -> AtMost(p.square_feet, q.max_sqft)
Supplied(q) == {f \in DOMAIN q : f \notin {"sort_by", "limit", "offset"} /\ Has(q[f])}

\* C15: for every subset of supplied filters, the i-th condition of the
\* WHERE clause carries placeholder i and the i-th parameter is the value
\* of that condition's filter; limit and offset are the last two
\* parameters and their placeholders the last two numbers; the count
\* query gets exactly the filter parameters, and total_count is the
\* number of rows that pass every supplied filter, whatever limit and
\* offset are.
C15_PlaceholdersAligned ==
  \A s \in Slots :
    (IsSearch(s) /\ searchPropertiesSchema(req[s].query))
      => LET q == req[s].query
             v == SearchValue(q)
             conds == whereConditions(v)
             params == queryParams(v)
             n == Cardinality(Supplied(q))
         IN /\ Len(conds) = n
            /\ Len(params) = n + 2
            /\ \A i \in 1..n :
                 /\ conds[i].placeholder = i
                 /\ \E f \in Supplied(q) :
                      /\ conds[i].column = FilterColumn(f)
                      /\ conds[i].op = FilterOperator(f)
                      /\ params[i] = FilterValue(q, f)
            /\ \A f \in Supplied(q) :
                 \E i \in 1..n : /\ conds[i].column = FilterColumn(f)
                                 /\ conds[i].op = FilterOperator(f)
            /\ limitParam(v) = n + 1 /\ params[limitParam(v)] = Val(v.limit)
            /\ offsetParam(v) = n + 2 /\ params[offsetParam(v)] = Val(v.offset)
            /\ SliceOffLastTwo(params) = SubSeq(params, 1, n)
            /\ (Done(s) /\ req[s].status = 200)
                 => Val(req[s].pagination).total_count =
                      Cardinality({p \in properties :
                                     \A f \in Supplied(q) : FilterHolds(p, q, f)})
C15_Witness ==
  \E s \in Slots :
    /\ Done(s) /\ IsSearch(s) /\ req[s].status = 200
    /\ Supplied(req[s].query) = {"min_rent", "max_rent", "min_sqft", "landlord_verified"}
    /\ req[s].query.limit = Some(1) /\ req[s].query.offset = Some(1)
    /\ Val(req[s].pagination).total_count = 2
    /\ Len(req[s].properties) = 1

\* C16: in every search response has_next is true exactly when
\* offset + limit < total_count and has_previous exactly when offset > 0,
\* also for an offset that is no multiple of limit.
C16_NextAndPrevious ==
  \A s \in Slots :
    (Done(s) /\ IsSearch(s) /\ req[s].status = 200)
      => LET v == SearchValue(req[s].query)
             page == Val(req[s].pagination)
         IN /\ page.has_next = (Val(v.offset) + Val(v.limit) < page.total_count)
            /\ page.has_previous = (Val(v.offset) > 0)

Min(a, b) == IF a < b THEN a ELSE b
Max(a, b) == IF a > b THEN a ELSE b

\* C17: in every search response, also when POST /properties requests
\* run between the page query and the count query of the search, the
\* number of properties returned is min(limit, max(0, total_count -
\* offset)) for the total_count of that response.
C17_PageFitsTotal ==
  \A s \in Slots :
    (Done(s) /\ IsSearch(s) /\ req[s].status = 200)
      => LET v == SearchValue(req[s].query)
             total == Val(req[s].pagination).total_count
         IN Len(req[s].properties) =
              Min(Val(v.limit), Max(0, total - Val(v.offset)))

==============================================================================
